---- MODULE Spec2Model ----
(***************************************************************************)
(* Model of the calendly backend: the slot generator                       *)
(* (controller/utils.go) and the booking handlers CreateBooking and        *)
(* CancelMeeting (controller/controller.go) running as concurrent          *)
(* requests against the shared database and the calendar provider.         *)
(***************************************************************************)
EXTENDS Integers, Sequences, FiniteSets, TLC

VARIABLES
    gen,            \* the slot generator: its inputs and the loop's locals
    serverUp,       \* FALSE once log.Fatalf has ended the server process
    now,            \* the wall clock the booking handlers and oauth2 read
    meetings,       \* table meetings: a sequence of rows, id = index
    integrations,   \* table integrations: a set of rows
    req,            \* per handler goroutine: position and locals
    provider,       \* the calendar provider: the id of its next event
    agg,            \* the availability aggregator: its reads and the loop's locals
    avail,          \* tables users, availability, day_availability
    tok             \* a call of ValidateGoogleToken: arguments and result

vars ==
    <<gen, serverUp, now, meetings, integrations, req, provider, agg, avail,
      tok>>

bookingVars == <<serverUp, now, meetings, integrations, req, provider>>

(***************************************************************************)
(* Bounds of the model.                                                    *)
(***************************************************************************)
\* number of rows the meetings table may hold
MaxMeetings == 2

\* last hour of the day the slot generator's inputs are drawn from
MaxHour == 11

(***************************************************************************)
(* Enumerations (pkg/enum).                                                *)
(***************************************************************************)
Scheduled == "SCHEDULED"

Cancelled == "CANCELLED"

AppGoogleMeetAndCalendar == "GOOGLE_MEET_AND_CALENDAR"

AppZoomMeeting == "ZOOM_MEETING"

LocationGoogleMeetAndCalendar == AppGoogleMeetAndCalendar

LocationZoomMeeting == AppZoomMeeting

AllEventLocationType == {LocationGoogleMeetAndCalendar, LocationZoomMeeting}

(***************************************************************************)
(* Slot generator (controller/utils.go).  Instants are minutes counted     *)
(* from midnight of targetDate; a stored TIME string is the record of its  *)
(* hour and minute fields, or the malformed string.                        *)
(***************************************************************************)
\* timeGapMinutes used when the stored gap is <= 0
DefaultTimeGap == 30

BadTimeStr == [ok |-> FALSE, h |-> 0, m |-> 0]

TimeStr(h, m) == [ok |-> TRUE, h |-> h, m |-> m]

\* time.Parse(layoutDBTime, s): the error, and the parsed clock fields
ParseDBTime(s) == [err |-> ~s.ok, Hour |-> s.h, Minute |-> s.m]

\* time.Date(targetDate.Year(), .Month(), .Day(), hour, minute, 0, 0, location)
DateAt(hour, minute) == hour * 60 + minute

\* t.Format(layoutHM): the wall-clock hour and minute of an instant
FormatHM(t) == <<(t \div 60) % 24, t % 60>>

\* the instant on targetDate that an emitted "HH:MM" names
SlotInstant(hm) == hm[1] * 60 + hm[2]

SlotStartBase(dayStartParsed, dayEndParsed) ==
    DateAt(dayStartParsed.Hour, dayEndParsed.Minute)

DayEndBoundary(dayEndParsed) == DateAt(dayEndParsed.Hour, dayEndParsed.Minute)

\* the gap is used as it was given
EffectiveTimeGap_asGiven(timeGapMinutes) == timeGapMinutes

\* utils.go 93-95
EffectiveTimeGap(timeGapMinutes) ==
    IF timeGapMinutes <= 0 THEN DefaultTimeGap ELSE timeGapMinutes

\* strict comparison in place of After-or-Equal
IsFutureSlot_strict(currentSlotStart, nowAt) == currentSlotStart > nowAt

IsFutureSlot(currentSlotStart, nowAt) ==
    currentSlotStart > nowAt \/ currentSlotStart = nowAt

\* a slot that ends exactly at the boundary is dropped too
ExceedsDayEnd_closed(slotEnd, dayEndBoundary) == slotEnd >= dayEndBoundary

\* utils.go 101: slotEnd.After(dayEndBoundary)
ExceedsDayEnd(slotEnd, dayEndBoundary) == slotEnd > dayEndBoundary

\* intervals that only touch count as overlapping
IsSlotAvailable_closed(slotStart, slotEnd, ms) ==
    \A meeting \in ms :
        ~(slotStart <= meeting.EndTime /\ slotEnd >= meeting.StartTime)

\* utils.go 174-183
IsSlotAvailable(slotStart, slotEnd, ms) ==
    \A meeting \in ms :
        ~(slotStart < meeting.EndTime /\ slotEnd > meeting.StartTime)

\* inputs of the generator
TimeStrs ==
    {TimeStr(h, m) : h \in 9..MaxHour, m \in {0, 30}} \cup {BadTimeStr}

Durations == {30, 60}

TimeGaps == {-15, 0, 30, 45}

Booked(s, e) == [StartTime |-> s, EndTime |-> e]

MeetingSets ==
    {{}, {Booked(600, 660)}, {Booked(555, 575)},
     {Booked(540, 570), Booked(630, 645)},
     {Booked(630, 660)}, {Booked(629, 645)}}

NowInstants == {-600, 540, 570, 585, 600}

GenInit ==
    /\ gen \in [pc : {"start"},
             dayStartTimeStr : TimeStrs,
             dayEndTimeStr : TimeStrs,
             durationMinutes : Durations,
             timeGapArg : TimeGaps,
             timeGapMinutes : TimeGaps,
             meetingsOnDate : MeetingSets,
             now : NowInstants,
             currentSlotStart : {0},
             dayEndBoundary : {0},
             slots : {<<>>},
             err : {FALSE}]
    /\ gen.timeGapArg = gen.timeGapMinutes

\* utils.go 69-95: parse both strings, build the base and the boundary
GenerateStart ==
    /\ gen.pc = "start"
    /\ LET sp == ParseDBTime(gen.dayStartTimeStr)
           ep == ParseDBTime(gen.dayEndTimeStr)
       IN IF sp.err \/ ep.err
          THEN gen' = [gen EXCEPT !.pc = "done", !.err = TRUE]
          ELSE gen' = [gen EXCEPT !.pc = "loop",
                                  !.currentSlotStart = SlotStartBase(sp, ep),
                                  !.dayEndBoundary = DayEndBoundary(ep),
                                  !.timeGapMinutes = EffectiveTimeGap(@)]
    /\ UNCHANGED <<agg, avail, tok, bookingVars>>

\* utils.go 97-114: one iteration of the loop that does not break
GenerateIterate ==
    /\ gen.pc = "loop"
    /\ gen.currentSlotStart < gen.dayEndBoundary
    /\ LET slotEnd == gen.currentSlotStart + gen.durationMinutes
       IN /\ ~ExceedsDayEnd(slotEnd, gen.dayEndBoundary)
          /\ gen' = [gen EXCEPT
                !.slots =
                    IF /\ IsFutureSlot(gen.currentSlotStart, gen.now)
                       /\ IsSlotAvailable(gen.currentSlotStart, slotEnd,
                                          gen.meetingsOnDate)
                    THEN Append(@, FormatHM(gen.currentSlotStart))
                    ELSE @,
                !.currentSlotStart = @ + gen.timeGapMinutes]
    /\ UNCHANGED <<agg, avail, tok, bookingVars>>

\* utils.go 97, 101-103, 116: the loop condition fails or the slot would
\* exceed the boundary; the slots are returned
GenerateReturn ==
    /\ gen.pc = "loop"
    /\ \/ ~(gen.currentSlotStart < gen.dayEndBoundary)
       \/ ExceedsDayEnd(gen.currentSlotStart + gen.durationMinutes,
                        gen.dayEndBoundary)
    /\ gen' = [gen EXCEPT !.pc = "done"]
    /\ UNCHANGED <<agg, avail, tok, bookingVars>>

GenNext == GenerateStart \/ GenerateIterate \/ GenerateReturn

(***************************************************************************)
(* Errors (pkg/app-error, pkg/enum/error-code.go).                         *)
(***************************************************************************)
ResourceNotFound == "RESOURCE_NOT_FOUND"

InternalServerError == "INTERNAL_SERVER_ERROR"

AuthInvalidToken == "AUTH_INVALID_TOKEN"

AuthUnauthorizedAccess == "AUTH_UNAUTHORIZED_ACCESS"

BadRequest == "BAD_REQUEST"

ValidationError == "VALIDATION_ERROR"
AuthEmailAlreadyExists == "AUTH_EMAIL_ALREADY_EXISTS"

\* AppError.GetErrorDetail().HTTPStatus: appErrorConfig has no entry for
\* BadRequest, which falls back to 500
HTTPStatus(code) ==
    CASE code = ResourceNotFound -> 404
      [] code = InternalServerError -> 500
      [] code = AuthInvalidToken -> 401
      [] code = AuthUnauthorizedAccess -> 401
      [] code = AuthEmailAlreadyExists -> 409
      [] OTHER -> 500

NoResponse == [status |-> 0, code |-> "", message |-> ""]

\* helper.ResponseErrorJson(w, appErr.HTTPStatus(), appErr.Error(), ...)
ErrorResponse(code, message) ==
    [status |-> HTTPStatus(code), code |-> code, message |-> message]

\* helper.ResponseJson(w, status, ...)
OkResponse(status, message) ==
    [status |-> status, code |-> "", message |-> message]

(***************************************************************************)
(* Tables.                                                                 *)
(***************************************************************************)
NoEvent ==
    [id |-> "", user_id |-> "", is_private |-> FALSE, location_type |-> "",
     duration |-> 0]

\* table events, read-only to the booking flow
events ==
    {[id |-> "e1", user_id |-> "u1", is_private |-> FALSE,
      location_type |-> LocationGoogleMeetAndCalendar, duration |-> 30],
     [id |-> "e2", user_id |-> "u1", is_private |-> FALSE,
      location_type |-> LocationZoomMeeting, duration |-> 60],
     [id |-> "e3", user_id |-> "u2", is_private |-> TRUE,
      location_type |-> LocationGoogleMeetAndCalendar, duration |-> 30]}

\* event ids a request may name; "e0" is no row of the table
EventIDs == {"e0", "e1", "e2", "e3"}

\* [StartTime, EndTime) of a CreateMeetingDto (EndTime gtfield StartTime):
\* the handlers never compare the two instants with anything, so every
\* request asks for the same half hour
Intervals == {<<1, 2>>}

NullInt64 == [Valid |-> FALSE, Int64 |-> 0]

NoIntegration ==
    [user_id |-> "", app_type |-> "", access_token |-> 0,
     refresh_token |-> "", expiry_date |-> NullInt64, is_connected |-> FALSE]

GoogleRow(rt, ex) ==
    [user_id |-> "u1", app_type |-> AppGoogleMeetAndCalendar,
     access_token |-> 1, refresh_token |-> rt, expiry_date |-> ex,
     is_connected |-> TRUE]

\* rows GoogleOAuthCallback may have stored for u1 (access token 1): without
\* a refresh token, or with one and either no expiry (read as Unix 0, which
\* has passed) or an expiry that passes at the first tick of the clock
GoogleRows ==
    {GoogleRow("", NullInt64)} \cup
    {GoogleRow("rt", ex) :
        ex \in {NullInt64, [Valid |-> TRUE, Int64 |-> 1]}}

ZoomRow ==
    [user_id |-> "u1", app_type |-> AppZoomMeeting, access_token |-> 1,
     refresh_token |-> "", expiry_date |-> NullInt64, is_connected |-> TRUE]

NoMeeting ==
    [id |-> 0, user_id |-> "", event_id |-> "", start_time |-> 0,
     end_time |-> 0, calendar_event_id |-> 0, calendar_app_type |-> "",
     status |-> ""]

NoDto == [EventID |-> "", StartTime |-> 0, EndTime |-> 0]

\* the handler goroutines: two requests are in flight at a time
Procs == {1, 2}

IdleReq ==
    [pc |-> "idle", op |-> "none", dto |-> NoDto, meetingID |-> 0,
     event |-> NoEvent, integration |-> NoIntegration,
     validAccessToken |-> 0, refreshed |-> FALSE, refreshes |-> 0,
     calendarEventID |-> 0, calendarAppTypeStr |-> "", remote |-> "none",
     meeting |-> NoMeeting, createdMeeting |-> 0, raced |-> FALSE,
     refreshRejected |-> FALSE, userID |-> "",
     response |-> NoResponse]

\* a meeting of e1 booked with remote event 1 before the owner reconnected
\* Google and was given no refresh token
EarlierMeeting ==
    [id |-> 1, user_id |-> "u1", event_id |-> "e1", start_time |-> 1,
     end_time |-> 2, calendar_event_id |-> 1,
     calendar_app_type |-> AppGoogleMeetAndCalendar, status |-> Scheduled]

BookingInit ==
    /\ serverUp = TRUE
    /\ now = 1
    /\ req = [p \in Procs |-> IdleReq]
    /\ \/ /\ meetings = <<>>
          /\ \E g \in SUBSET GoogleRows :
                /\ Cardinality(g) <= 1
                /\ integrations = g \cup {ZoomRow}
          /\ provider = [nextId |-> 1]
       \/ /\ meetings = <<EarlierMeeting>>
          /\ integrations = {GoogleRow("", NullInt64), ZoomRow}
          /\ provider = [nextId |-> 2]

(***************************************************************************)
(* Credential refresh (controller/utils.go, golang.org/x/oauth2).          *)
(***************************************************************************)
\* oauth2.Token.Valid() fails once the expiry has passed
Expired(expiry, nowAt) == expiry < nowAt

\* the access token the provider's token endpoint issues: one that differs
\* from the token it replaces
NewAccessToken(accessToken) == accessToken + 1

\* refreshes are coordinated: a request whose peer has refreshed takes the
\* peer's token and does not call the token endpoint
ValidateGoogleToken_singleFlight(accessToken, refreshToken, expiryDateUnix, nowAt, providerOk) ==
    IF \E q \in DOMAIN req : req[q].refreshed
    THEN [token |-> NewAccessToken(accessToken), err |-> FALSE,
          called |-> FALSE]
    ELSE IF ~providerOk
    THEN [token |-> 0, err |-> TRUE, called |-> TRUE]
    ELSE [token |-> NewAccessToken(accessToken), err |-> FALSE,
          called |-> TRUE]

\* an expired access token without refresh token is an error
ValidateGoogleToken_expiredFails(accessToken, refreshToken, expiryDateUnix, nowAt, providerOk) ==
    IF refreshToken = "" /\ Expired(expiryDateUnix, nowAt)
    THEN [token |-> 0, err |-> TRUE, called |-> FALSE]
    ELSE [token |-> accessToken, err |-> FALSE, called |-> FALSE]

\* ValidateGoogleToken.  providerOk is the token endpoint's answer, read
\* only when the token source has to refresh.
ValidateGoogleToken(accessToken, refreshToken, expiryDateUnix, nowAt, providerOk) ==
    IF refreshToken = ""
    THEN [token |-> accessToken, err |-> FALSE, called |-> FALSE]
    ELSE IF accessToken # 0 /\ ~Expired(expiryDateUnix, nowAt)
    THEN [token |-> accessToken, err |-> FALSE, called |-> FALSE]
    ELSE IF ~providerOk
    THEN [token |-> 0, err |-> TRUE, called |-> TRUE]
    ELSE [token |-> NewAccessToken(accessToken), err |-> FALSE,
          called |-> TRUE]

\* a failed refresh is ignored and the client is built without token
GetCalendarClient_ignoresRefreshError(integration, nowAt, providerOk, svcErr) ==
    LET v == ValidateGoogleToken(integration.access_token,
                                 integration.refresh_token,
                                 integration.expiry_date.Int64, nowAt,
                                 providerOk)
    IN [err |-> "", message |-> "", token |-> v.token, called |-> v.called]

\* a credential without refresh token is passed on to ValidateGoogleToken
GetCalendarClient_skipsRefreshTokenCheck(integration, nowAt, providerOk, svcErr) ==
    IF integration.app_type # AppGoogleMeetAndCalendar
    THEN [err |-> BadRequest,
          message |-> "Unsupported calendar provider app type",
          token |-> 0, called |-> FALSE]
    ELSE LET v == ValidateGoogleToken(integration.access_token,
                                      integration.refresh_token,
                                      integration.expiry_date.Int64, nowAt,
                                      providerOk)
         IN IF v.err
            THEN [err |-> AuthInvalidToken,
                  message |-> "Failed to validate/refresh Google token",
                  token |-> 0, called |-> v.called]
            ELSE IF svcErr
            THEN [err |-> InternalServerError,
                  message |-> "Failed to create Google Calendar service client",
                  token |-> v.token, called |-> v.called]
            ELSE [err |-> "", message |-> "", token |-> v.token,
                  called |-> v.called]

\* GetCalendarClient: the error code and message ("" when it succeeds), the
\* access token of the client, whether the token endpoint was called
GetCalendarClient(integration, nowAt, providerOk, svcErr) ==
    IF integration.app_type # AppGoogleMeetAndCalendar
    THEN [err |-> BadRequest,
          message |-> "Unsupported calendar provider app type",
          token |-> 0, called |-> FALSE]
    ELSE IF integration.refresh_token = ""
    THEN [err |-> AuthUnauthorizedAccess,
          message |-> "Google integration missing refresh token for offline access.",
          token |-> 0, called |-> FALSE]
    ELSE LET v == ValidateGoogleToken(integration.access_token,
                                      integration.refresh_token,
                                      integration.expiry_date.Int64, nowAt,
                                      providerOk)
         IN IF v.err
            THEN [err |-> AuthInvalidToken,
                  message |-> "Failed to validate/refresh Google token",
                  token |-> 0, called |-> v.called]
            ELSE IF svcErr
            THEN [err |-> InternalServerError,
                  message |-> "Failed to create Google Calendar service client",
                  token |-> v.token, called |-> v.called]
            ELSE [err |-> "", message |-> "", token |-> v.token,
                  called |-> v.called]

\* googleOAuthConfig.Client(ctx, token): the transport refreshes before a
\* request when the token it was built from carries a passed expiry
TransportRefreshes(integration, nowAt) ==
    /\ integration.expiry_date.Valid
    /\ Expired(integration.expiry_date.Int64, nowAt)

(***************************************************************************)
(* Handlers.  A handler goroutine p runs one request at a time; every      *)
(* database round trip and every provider call is one step.                *)
(***************************************************************************)
\* appError.WriteError: the response is written, then log.Fatalf
WriteError(r, code, message) ==
    [r EXCEPT !.pc = "done", !.response = ErrorResponse(code, message)]

\* the process survives WriteError
Fatal_never(r) == FALSE

\* the request ended in WriteError, whose log.Fatalf exits the process
Fatal(r) == r.pc = "done" /\ r.response.code # ""

\* os.Exit ends every goroutine: a request that was under way is lost, one
\* whose response is written keeps it
Killed(r) ==
    IF r.pc \in {"idle", "done"} THEN r ELSE [IdleReq EXCEPT !.pc = "killed"]

\* one step of goroutine p, leaving it with locals r
Step(p, r) ==
    /\ req' = IF Fatal(r)
              THEN [q \in Procs |-> IF q = p THEN r ELSE Killed(req[q])]
              ELSE [req EXCEPT ![p] = r]
    /\ serverUp' = ~Fatal(r)

\* create requests that have not reached their INSERT yet
InFlightCreates ==
    Cardinality({q \in Procs : req[q].op = "create" /\ req[q].pc # "done"})

\* the lowest idle goroutine takes the next request
Accepts(p) ==
    /\ serverUp
    /\ req[p].pc = "idle"
    /\ \A q \in Procs : q < p => req[q].pc # "idle"

IntegrationAppTypeFromEventLocation(loc) ==
    CASE loc = LocationGoogleMeetAndCalendar ->
            [appType |-> AppGoogleMeetAndCalendar, ok |-> TRUE]
      [] loc = LocationZoomMeeting -> [appType |-> AppZoomMeeting, ok |-> TRUE]
      [] OTHER -> [appType |-> "", ok |-> FALSE]

\* SELECT * FROM integrations WHERE user_id = $1 AND app_type = $2
\*   AND is_connected = TRUE
IntegrationQuery(rows, userID, appType) ==
    {i \in rows :
        i.user_id = userID /\ i.app_type = appType /\ i.is_connected}

\* the remote create is skipped for every location
AfterIntegration_skips(event) == "cb_insert"

\* controller.go 216, 260-263: only a Google location creates a remote event
AfterIntegration(event) ==
    IF event.location_type = LocationGoogleMeetAndCalendar
    THEN "cb_client" ELSE "cb_insert"

\* the query returns private events too
PublicEventQuery_any(id) == {e \in events : e.id = id}

\* SELECT e.* FROM events e WHERE e.id = $1 AND e.is_private = FALSE
PublicEventQuery(id) == {e \in events : e.id = id /\ ~e.is_private}

\* controller.go 169-209: the event and the owner's integration are loaded.
\* dbErr names the query that fails with a database error, if any.  The two
\* location checks cannot fail for the rows of events.
LoadBooking(r, rows, dbErr) ==
    LET found == PublicEventQuery(r.dto.EventID)
        event == CHOOSE e \in found : TRUE
        required == IntegrationAppTypeFromEventLocation(event.location_type)
        creds == IntegrationQuery(rows, event.user_id, required.appType)
    IN IF dbErr = "event"
       THEN WriteError(r, InternalServerError, "Failed to fetch event")
       ELSE IF found = {}
       THEN WriteError(r, ResourceNotFound, "Resource 'Public event' not found.")
       ELSE IF event.location_type \notin AllEventLocationType
       THEN WriteError(r, BadRequest, "Event has invalid location type")
       ELSE IF ~required.ok
       THEN WriteError(r, InternalServerError,
                       "Cannot map event location to integration app type")
       ELSE IF dbErr = "integration"
       THEN WriteError([r EXCEPT !.event = event], InternalServerError,
                       "Failed to fetch integration")
       ELSE IF creds = {}
       THEN WriteError([r EXCEPT !.event = event], BadRequest,
               "Required integration not found or disconnected for the event owner.")
       ELSE [r EXCEPT !.pc = AfterIntegration(event),
                      !.event = event,
                      !.integration = CHOOSE i \in creds : TRUE]

\* POST /meeting/public, controller.go 138-209: the request arrives and reads
\* the event and the integration, two tables no handler of the model writes
CreateBookingLoad(p, ev, iv) ==
    /\ Accepts(p)
    /\ Len(meetings) + InFlightCreates < MaxMeetings
    /\ \E dbErr \in {"none", "event", "integration"} :
          Step(p, LoadBooking(
                    [IdleReq EXCEPT !.op = "create",
                                    !.dto = [EventID |-> ev,
                                             StartTime |-> iv[1],
                                             EndTime |-> iv[2]]],
                    integrations, dbErr))
    /\ UNCHANGED <<gen, agg, avail, tok, now, meetings, integrations, provider>>

\* controller.go 216-222: GetCalendarClient and its error
CreateGetCalendarClient(p) ==
    /\ serverUp /\ req[p].pc = "cb_client"
    /\ \E providerOk \in BOOLEAN, svcErr \in BOOLEAN :
        LET r == req[p]
            c == GetCalendarClient(r.integration, now, providerOk, svcErr)
            rr == [r EXCEPT !.refreshes = @ + (IF c.called THEN 1 ELSE 0),
                            !.refreshRejected = c.called /\ ~providerOk]
        IN IF c.err # ""
           THEN Step(p, WriteError(rr, InternalServerError, c.message))
           ELSE Step(p, [rr EXCEPT
                    !.pc = "cb_calendar",
                    !.validAccessToken = c.token,
                    !.refreshed = (c.token # r.integration.access_token),
                    !.calendarAppTypeStr = r.integration.app_type])
    /\ UNCHANGED <<gen, agg, avail, tok, now, meetings, integrations, provider>>

\* the booking carries on to the insert although the remote create failed
CalendarInsertResult_proceeds(r, outcome, id) ==
    IF outcome = "error"
    THEN [r EXCEPT !.pc = "cb_insert", !.remote = "failed"]
    ELSE IF outcome = "noid"
    THEN [r EXCEPT !.pc = "cb_insert", !.remote = "noid"]
    ELSE [r EXCEPT !.pc = "cb_insert", !.remote = "created",
                   !.calendarEventID = id]

\* controller.go 244-258: what CreateBooking does with the answer of
\* calendarSvc.Events.Insert
CalendarInsertResult(r, outcome, id) ==
    IF outcome = "error"
    THEN WriteError([r EXCEPT !.remote = "failed"], InternalServerError,
                    "Failed to create calendar event")
    ELSE IF outcome = "noid"
    THEN WriteError([r EXCEPT !.remote = "noid"], InternalServerError,
                    "Created calendar event missing ID")
    ELSE [r EXCEPT !.pc = "cb_insert", !.remote = "created",
                   !.calendarEventID = id]

\* controller.go 224-258: calendarSvc.Events.Insert(...).Do().  The provider
\* answers with an event, with an event that carries no id, or with an error.
CreateCalendarInsert(p) ==
    /\ serverUp /\ req[p].pc = "cb_calendar"
    /\ \E outcome \in {"ok", "noid", "error"} :
        LET r == req[p]
            again == TransportRefreshes(r.integration, now)
            rr == [r EXCEPT !.refreshes = @ + (IF again THEN 1 ELSE 0)]
            id == provider.nextId
        IN /\ provider' =
                IF outcome = "error" THEN provider
                ELSE [provider EXCEPT !.nextId = @ + 1]
           /\ Step(p, CalendarInsertResult(rr, outcome, id))
    /\ UNCHANGED <<gen, agg, avail, tok, now, meetings, integrations>>

\* controller.go 267-281: the row of the INSERT INTO meetings
NewMeeting(r, id) ==
    [id |-> id, user_id |-> r.event.user_id, event_id |-> r.event.id,
     start_time |-> r.dto.StartTime, end_time |-> r.dto.EndTime,
     calendar_event_id |-> r.calendarEventID,
     calendar_app_type |-> r.calendarAppTypeStr, status |-> Scheduled]

\* another create-booking of the same event and interval is under way
\* between its load and its INSERT
Raced(p) ==
    \E q \in Procs \ {p} :
        /\ req[q].op = "create"
        /\ req[q].pc \in {"cb_client", "cb_calendar", "cb_insert"}
        /\ req[q].dto = req[p].dto

\* controller.go 265-296.  raced records, for the properties, that the
\* INSERT ran concurrently with an identical request.
CreateInsertMeeting(p) ==
    /\ serverUp /\ req[p].pc = "cb_insert"
    /\ \E dbErr \in BOOLEAN :
        LET r == [req[p] EXCEPT !.raced = Raced(p)]
            id == Len(meetings) + 1
        IN IF dbErr
           THEN /\ Step(p, WriteError(r, InternalServerError,
                                      "Failed to save meeting record"))
                /\ UNCHANGED meetings
           ELSE /\ meetings' = Append(meetings, NewMeeting(r, id))
                /\ Step(p, [r EXCEPT
                       !.pc = "done", !.createdMeeting = id,
                       !.response = OkResponse(201, "Meeting scheduled successfully")])
    /\ UNCHANGED <<gen, agg, avail, tok, now, integrations, provider>>

\* the handler returns; the goroutine is free for the next request
Finish(p) ==
    /\ serverUp /\ req[p].pc = "done"
    /\ Step(p, IdleReq)
    /\ UNCHANGED <<gen, agg, avail, tok, now, meetings, integrations, provider>>

\* the check is skipped
AlreadyCancelled_never(meeting) == FALSE

\* controller.go 342
AlreadyCancelled(meeting) == meeting.status = Cancelled

\* controller.go 348
HasRemoteEvent(meeting) ==
    meeting.calendar_event_id # 0 /\ meeting.calendar_app_type # ""

\* e.user_id AS event_user_id of the fetched meeting
EventUserID(meeting) ==
    (CHOOSE e \in events : e.id = meeting.event_id).user_id

\* a failed provider delete ends the request
RemoteDeleteResult_aborts(r, result) ==
    IF result = "delete_err"
    THEN WriteError([r EXCEPT !.remote = result], InternalServerError,
                    "Failed to delete event from calendar")
    ELSE [r EXCEPT !.remote = result, !.pc = "cm_update"]

\* controller.go 355-381: every way the best-effort deletion ends is logged
\* and the handler goes on to the status update
RemoteDeleteResult(r, result) ==
    [r EXCEPT !.remote = result, !.pc = "cm_update"]

\* controller.go 320-359: the meeting is loaded and checked, then the
\* integration of its remote event.  dbErr names the query that fails with a
\* database error, if any.
LoadMeeting(r, ms, rows, dbErr) ==
    LET found == {i \in 1..Len(ms) :
                     /\ i = r.meetingID
                     /\ \E e \in events : e.id = ms[i].event_id}
        meeting == ms[r.meetingID]
        rm == [r EXCEPT !.meeting = meeting]
        creds == IntegrationQuery(rows, EventUserID(meeting),
                                  meeting.calendar_app_type)
    IN IF dbErr = "meeting"
       THEN WriteError(r, InternalServerError, "Failed to fetch meeting")
       ELSE IF found = {}
       THEN WriteError(r, ResourceNotFound, "Resource 'Meeting' not found.")
       ELSE IF AlreadyCancelled(meeting)
       THEN WriteError(rm, BadRequest, "Meeting is already cancelled")
       ELSE IF ~HasRemoteEvent(meeting)
       THEN [rm EXCEPT !.pc = "cm_update"]
       ELSE IF dbErr = "integration"
       THEN RemoteDeleteResult(rm, "lookup_err")
       ELSE IF creds = {}
       THEN RemoteDeleteResult(rm, "no_cred")
       ELSE [rm EXCEPT !.pc = "cm_client",
                       !.integration = CHOOSE i \in creds : TRUE]

\* DELETE /meeting/{meetingId}, controller.go 302-359: the request arrives
\* and reads the meeting, then the integration
CancelMeetingLoad(p, id, userID) ==
    /\ Accepts(p)
    /\ \E dbErr \in {"none", "meeting", "integration"} :
          Step(p, LoadMeeting([IdleReq EXCEPT !.op = "cancel",
                                              !.meetingID = id,
                                              !.userID = userID],
                              meetings, integrations, dbErr))
    /\ UNCHANGED <<gen, agg, avail, tok, now, meetings, integrations, provider>>

\* controller.go 360-380: GetCalendarClient, then
\* calendarSvc.Events.Delete(...).Do()
CancelCalendarDelete(p) ==
    /\ serverUp /\ req[p].pc = "cm_client"
    /\ \E providerOk \in BOOLEAN, svcErr \in BOOLEAN, ok \in BOOLEAN :
        LET r == req[p]
            c == GetCalendarClient(r.integration, now, providerOk, svcErr)
            again == TransportRefreshes(r.integration, now)
        IN IF c.err # ""
           THEN Step(p, RemoteDeleteResult(
                    [r EXCEPT !.refreshes = @ + (IF c.called THEN 1 ELSE 0)],
                    "client_err"))
           ELSE Step(p, RemoteDeleteResult(
                    [r EXCEPT
                        !.refreshes = @ + (IF c.called THEN 1 ELSE 0)
                                        + (IF again THEN 1 ELSE 0),
                        !.validAccessToken = c.token,
                        !.refreshed = (c.token # r.integration.access_token)],
                    IF ok THEN "deleted" ELSE "delete_err"))
    /\ UNCHANGED <<gen, agg, avail, tok, now, meetings, integrations, provider>>

\* the update writes Scheduled over a Cancelled row
UpdateMeetingStatus_toggles(ms, id) ==
    [ms EXCEPT ![id].status = IF @ = Cancelled THEN Scheduled ELSE Cancelled]

\* controller.go 385-386: UPDATE meetings SET status = $1 WHERE id = $2
UpdateMeetingStatus(ms, id) == [ms EXCEPT ![id].status = Cancelled]

\* controller.go 384-398
CancelUpdateStatus(p) ==
    /\ serverUp /\ req[p].pc = "cm_update"
    /\ \E dbErr \in BOOLEAN :
        LET r == req[p]
            rowsAffected ==
                Cardinality({i \in 1..Len(meetings) : i = r.meetingID})
        IN IF dbErr
           THEN /\ Step(p, WriteError(r, InternalServerError,
                                      "Failed to update meeting status"))
                /\ UNCHANGED meetings
           ELSE IF rowsAffected = 0
           THEN /\ Step(p, WriteError(r, ResourceNotFound,
                                      "Resource 'Meeting (for update)' not found."))
                /\ UNCHANGED meetings
           ELSE /\ meetings' = UpdateMeetingStatus(meetings, r.meetingID)
                /\ Step(p, [r EXCEPT
                       !.pc = "done",
                       !.response = OkResponse(200, "Meeting cancelled successfully")])
    /\ UNCHANGED <<gen, agg, avail, tok, now, integrations, provider>>

\* time passes; the handlers read the clock only against a stored expiry,
\* so the clock is followed until the last stored expiry has passed
Tick ==
    /\ serverUp
    /\ \E i \in integrations :
          i.expiry_date.Valid /\ ~Expired(i.expiry_date.Int64, now)
    /\ now' = now + 1
    /\ UNCHANGED <<gen, agg, avail, tok, serverUp, meetings, integrations, req, provider>>

(***************************************************************************)
(* Availability aggregator (GetPublicEventAvailability).  Instants are     *)
(* minutes counted from midnight of today; a date is the number of days    *)
(* from today.                                                             *)
(***************************************************************************)
AllDayOfWeek ==
    <<"SUNDAY", "MONDAY", "TUESDAY", "WEDNESDAY", "THURSDAY", "FRIDAY",
      "SATURDAY">>

\* the time.Weekday of a DayOfWeek (the map days of GetNextDateForDay)
Weekday(dayOfWeek) ==
    (CHOOSE i \in 1..Len(AllDayOfWeek) : AllDayOfWeek[i] = dayOfWeek) - 1

\* GetNextDateForDay: today or the next date that falls on dayOfWeek
GetNextDateForDay(dayOfWeek, todayWeekDay) ==
    (Weekday(dayOfWeek) - todayWeekDay + 7) % 7

\* midnight of a date
Midnight(date) == date * 1440

\* dateRangeStart.AddDate(0, 0, 7)
DateRangeEnd(dateRangeStart) == dateRangeStart + 7 * 1440

RECURSIVE SlotLoop(_, _, _, _, _, _, _)
\* utils.go 97-114: the loop of the slot generator
SlotLoop(currentSlotStart, dayEndBoundary, durationMinutes, timeGapMinutes, meetingsOnDate, nowAt, slots) ==
    IF \/ ~(currentSlotStart < dayEndBoundary)
       \/ ExceedsDayEnd(currentSlotStart + durationMinutes, dayEndBoundary)
    THEN slots
    ELSE SlotLoop(currentSlotStart + timeGapMinutes, dayEndBoundary,
                  durationMinutes, timeGapMinutes, meetingsOnDate, nowAt,
                  IF /\ IsFutureSlot(currentSlotStart, nowAt)
                     /\ IsSlotAvailable(currentSlotStart,
                                        currentSlotStart + durationMinutes,
                                        meetingsOnDate)
                  THEN Append(slots, FormatHM(currentSlotStart))
                  ELSE slots)

\* GenerateAvailableTimeSlots as one call: the slots and the error
GenerateAvailableTimeSlots(dayStartTimeStr, dayEndTimeStr, durationMinutes, timeGapMinutes, meetingsOnDate, nowAt) ==
    LET sp == ParseDBTime(dayStartTimeStr)
        ep == ParseDBTime(dayEndTimeStr)
    IN IF sp.err \/ ep.err
       THEN [slots |-> <<>>, err |-> TRUE]
       ELSE [slots |-> SlotLoop(SlotStartBase(sp, ep), DayEndBoundary(ep),
                                durationMinutes,
                                EffectiveTimeGap(timeGapMinutes),
                                meetingsOnDate, nowAt, <<>>),
             err |-> FALSE]

\* the rows of the first query for an event: the owner's day_availability
\* rows joined to the event
RuleRows(av, event) ==
    {av.day_availability[i] : i \in
        {j \in 1..Len(av.day_availability) :
            av.day_availability[j].user_id = event.user_id}}

\* part_000 273-286: the rules by weekday
DayRules(rows) ==
    [day \in {r.day : r \in rows} |-> CHOOSE r \in rows : r.day = day]

\* part_000 305-311: SELECT ... FROM meetings WHERE user_id = $1
\*   AND start_time < $2 AND end_time > $3
MeetingsInRange(ms, userID, dateRangeStart, dateRangeEnd) ==
    {ms[i] : i \in {j \in 1..Len(ms) :
        /\ ms[j].user_id = userID
        /\ ms[j].start_time < dateRangeEnd
        /\ ms[j].end_time > dateRangeStart}}

\* part_000 335-343: the meetings of the range that touch the target date,
\* as the generator sees them (relative to the date's midnight)
MeetingsForThisDate(meetingsInRange, targetDate) ==
    {Booked(m.start_time - Midnight(targetDate),
            m.end_time - Midnight(targetDate)) :
        m \in {x \in meetingsInRange :
                  /\ x.start_time < Midnight(targetDate + 1)
                  /\ x.end_time > Midnight(targetDate)}}

\* the flag of the rule is ignored
DayIsAvailable_anyRule(dayRules, dayOfWeek) == dayOfWeek \in DOMAIN dayRules

\* part_000 325-331: ruleExists && rule.IsAvailable
DayIsAvailable(dayRules, dayOfWeek) ==
    dayOfWeek \in DOMAIN dayRules /\ dayRules[dayOfWeek].is_available

\* part_000 320-359: the entry of one weekday, and whether the generator
\* was called and failed
DailyResult(dayOfWeek, dayRules, event, timeGap, meetingsInRange, todayWeekDay, nowAt) ==
    LET targetDate == GetNextDateForDay(dayOfWeek, todayWeekDay)
        isAvailable == DayIsAvailable(dayRules, dayOfWeek)
        rule == dayRules[dayOfWeek]
        g == GenerateAvailableTimeSlots(
                 rule.start_time, rule.end_time, event.duration, timeGap,
                 MeetingsForThisDate(meetingsInRange, targetDate),
                 nowAt - Midnight(targetDate))
    IN [entry |-> [Day |-> dayOfWeek,
                   Slots |-> IF isAvailable /\ ~g.err THEN g.slots ELSE <<>>,
                   IsAvailable |-> isAvailable],
        errSlots |-> isAvailable /\ g.err]

AggIdle ==
    [pc |-> "idle", eventID |-> "", todayWeekDay |-> 0, event |-> NoEvent,
     timeGap |-> 0, dayRules |-> <<>>, meetingsInRange |-> {}, i |-> 0,
     resultSlots |-> <<>>, queryFailed |-> FALSE, response |-> NoResponse]

\* part_000 224-286: the event with the owner's availability and day rules.
\* An owner without availability or without day rows gives a row whose
\* d.day is NULL, which does not scan into the string field Day.
LoadRules(a, av, dbErr) ==
    LET found == PublicEventQuery(a.eventID)
        event == CHOOSE e \in found : TRUE
        availability == {x \in av.availability : x.user_id = event.user_id}
        rows == RuleRows(av, event)
    IN IF dbErr
       THEN WriteError(a, InternalServerError,
                       "Failed to fetch event and availabilty")
       ELSE IF found = {}
       THEN WriteError(a, BadRequest,
                       "Event found but no availability for user")
       ELSE IF availability = {} \/ rows = {}
       THEN WriteError(a, InternalServerError,
                       "Failed to fetch event and availabilty")
       ELSE [a EXCEPT !.pc = "meetings",
                      !.event = event,
                      !.timeGap = (CHOOSE x \in availability : TRUE).time_gap,
                      !.dayRules = DayRules(rows)]

\* today's weekday, as time.Now().Weekday() gives it
TodayWeekDays == {0, 3}

\* GET /public/events/{eventId}/availability, part_000 213-301
AggFetchRules(ev, todayWeekDay) ==
    /\ serverUp /\ agg.pc = "idle"
    /\ \E dbErr \in BOOLEAN :
        LET a == LoadRules([AggIdle EXCEPT !.eventID = ev,
                                           !.todayWeekDay = todayWeekDay,
                                           !.queryFailed = dbErr],
                           avail, dbErr)
        IN /\ agg' = a
           /\ serverUp' = ~Fatal(a)
    /\ UNCHANGED <<gen, now, meetings, integrations, req, provider, avail, tok>>

\* part_000 303-315: the owner's meetings of the date range, in one query
AggFetchMeetings ==
    /\ serverUp /\ agg.pc = "meetings"
    /\ \E dbErr \in BOOLEAN :
        LET a == IF dbErr
                 THEN WriteError(agg, InternalServerError,
                                 "Failed to fetch meetings")
                 ELSE [agg EXCEPT
                          !.pc = "loop", !.i = 1,
                          !.meetingsInRange =
                              MeetingsInRange(meetings, agg.event.user_id,
                                              now, DateRangeEnd(now))]
        IN /\ agg' = a
           /\ serverUp' = ~Fatal(a)
    /\ UNCHANGED <<gen, now, meetings, integrations, req, provider, avail, tok>>

\* a generator error ends the request
AppendDay_aborts(a, result) ==
    IF result.errSlots
    THEN WriteError(a, InternalServerError, "Failed to generate slots")
    ELSE [a EXCEPT !.resultSlots = Append(@, result.entry), !.i = @ + 1]

\* part_000 353-360: a generator error is logged; the entry is appended
AppendDay(a, result) ==
    [a EXCEPT !.resultSlots = Append(@, result.entry), !.i = @ + 1]

\* part_000 319-361: one iteration of the loop over enum.AllDayOfWeek()
AggDay ==
    /\ serverUp /\ agg.pc = "loop"
    /\ agg.i <= Len(AllDayOfWeek)
    /\ LET a == AppendDay(agg,
                    DailyResult(AllDayOfWeek[agg.i], agg.dayRules, agg.event,
                                agg.timeGap, agg.meetingsInRange,
                                agg.todayWeekDay, now))
       IN /\ agg' = a
          /\ serverUp' = ~Fatal(a)
    /\ UNCHANGED <<gen, now, meetings, integrations, req, provider, avail, tok>>

\* part_000 363-367
AggRespond ==
    /\ serverUp /\ agg.pc = "loop"
    /\ agg.i > Len(AllDayOfWeek)
    /\ agg' = [agg EXCEPT
                  !.pc = "done",
                  !.response = OkResponse(200, "Event availability fetched successfully")]
    /\ UNCHANGED <<gen, serverUp, now, meetings, integrations, req, provider,
                   avail, tok>>

AggNext ==
    \/ \E ev \in EventIDs, todayWeekDay \in TodayWeekDays :
          AggFetchRules(ev, todayWeekDay)
    \/ AggFetchMeetings
    \/ AggDay
    \/ AggRespond

(***************************************************************************)
(* Tables users, availability and day_availability, and the two handlers   *)
(* that write them (Register, UpdateAvailability).  Each handler runs its  *)
(* statements in one transaction, which is one step here.                  *)
(***************************************************************************)
\* longest list of days an update request carries, apart from a full week
MaxDays == 2

\* weekdays, counted from Sunday, whose stored rule varies; the later
\* weekdays are plainly open
MaxVariedDays == 3

Users == {"u1", "u2"}

NoAvail ==
    [users |-> {}, availability |-> {}, day_availability |-> <<>>,
     response |-> NoResponse, committed |-> FALSE]

DayRow(user, day, startTime, endTime, isAvailable) ==
    [user_id |-> user, day |-> day, start_time |-> startTime,
     end_time |-> endTime, is_available |-> isAvailable]

\* part_000 472-486: the seven default rows of a new user
DefaultDays(user) ==
    [i \in 1..Len(AllDayOfWeek) |->
        DayRow(user, AllDayOfWeek[i], TimeStr(9, 0), TimeStr(17, 0),
               AllDayOfWeek[i] # "SUNDAY" /\ AllDayOfWeek[i] # "SATURDAY")]

RECURSIVE WithoutUser(_, _)
\* DELETE FROM day_availability WHERE availability_id = $1
WithoutUser(rows, user) ==
    IF rows = <<>> THEN <<>>
    ELSE (IF Head(rows).user_id = user THEN <<>> ELSE <<Head(rows)>>)
         \o WithoutUser(Tail(rows), user)

\* part_000 446-497: the statements of Register's transaction
RegisterTx(av, user) ==
    [av EXCEPT !.users = @ \cup {user},
               !.availability = @ \cup {[user_id |-> user, time_gap |-> 30]},
               !.day_availability = @ \o DefaultDays(user)]

\* POST /auth/register, part_000 390-509.  outcome names how the request
\* ends: a statement fails, the commit of the deferred function fails after
\* the response was written, or the transaction commits.
Register(user) ==
    /\ serverUp
    /\ \E outcome \in {"db_error", "commit_failed", "ok"} :
        IF user \in avail.users
        THEN /\ avail' = [avail EXCEPT !.response =
                    ErrorResponse(AuthEmailAlreadyExists,
                                  "User with this email already exists")]
             /\ serverUp' = FALSE
        ELSE IF outcome = "db_error"
        THEN /\ avail' = [avail EXCEPT !.response =
                    ErrorResponse(InternalServerError, "Failed to insert user")]
             /\ serverUp' = FALSE
        ELSE /\ avail' =
                  [(IF outcome = "ok" THEN RegisterTx(avail, user) ELSE avail)
                   EXCEPT !.response = OkResponse(201, "User created successfully"),
                          !.committed = (outcome = "ok")]
             /\ UNCHANGED serverUp
    /\ UNCHANGED <<gen, now, meetings, integrations, req, provider, agg, tok>>

\* part_000 131-207: the statements of UpdateAvailability's transaction: the
\* availability row is created or its time_gap updated, the user's day rows
\* are deleted, the rows of the request are inserted
UpdateAvailabilityTx(av, user, dto) ==
    [av EXCEPT
        !.availability =
            {x \in @ : x.user_id # user}
            \cup {[user_id |-> user, time_gap |-> dto.TimeGap]},
        !.day_availability =
            WithoutUser(@, user)
            \o [i \in 1..Len(dto.Days) |->
                   DayRow(user, dto.Days[i].day, dto.Days[i].start_time,
                          dto.Days[i].end_time, dto.Days[i].is_available)]]

\* a DayAvailabilityDto
DayDtos ==
    {[day |-> d, start_time |-> "09:00", end_time |-> "17:00",
      is_available |-> TRUE] : d \in {"MONDAY", "TUESDAY"}}

\* a request that carries one rule for every weekday
WeekDto ==
    [i \in 1..Len(AllDayOfWeek) |->
        [day |-> AllDayOfWeek[i], start_time |-> "09:00",
         end_time |-> "11:00", is_available |-> TRUE]]

\* the UpdateAvailabilityDto of a request body
UpdateDtos ==
    {[TimeGap |-> g, Days |-> days] :
        g \in {0, 30, 45},
        days \in {WeekDto} \cup UNION {[1..n -> DayDtos] : n \in 0..MaxDays}}

\* validator-handler.go 68-84 on an UpdateAvailabilityDto.  The tag time_hm
\* of DayAvailabilityDto is registered nowhere (validator.go 40-42, part_002
\* 123), so the first element the dive reaches makes the validator panic;
\* "required" on TimeGap rejects the zero value.
WithValidation(dto) ==
    IF dto.Days # <<>> THEN "panic"
    ELSE IF dto.TimeGap = 0 THEN "invalid"
    ELSE "valid"

\* PUT /availability, router.go 69-70 and part_000 93-210, for an
\* authenticated user.  A panic of the validation is recovered by
\* ErrorMiddleware, whose log.Fatalf ends the process before a response is
\* written.
UpdateAvailability(user, dto) ==
    /\ serverUp
    /\ user \in avail.users
    /\ \E outcome \in {"db_error", "commit_failed", "ok"} :
        IF WithValidation(dto) = "panic"
        THEN /\ avail' = [avail EXCEPT !.response = NoResponse]
             /\ serverUp' = FALSE
        ELSE IF WithValidation(dto) = "invalid"
        THEN /\ avail' = [avail EXCEPT !.response =
                    [status |-> 400, code |-> ValidationError,
                     message |-> "Validation failed"]]
             /\ UNCHANGED serverUp
        ELSE IF outcome = "db_error"
        THEN /\ avail' = [avail EXCEPT !.response =
                    ErrorResponse(InternalServerError,
                                  "Failed to delete old availability days")]
             /\ serverUp' = FALSE
        ELSE /\ avail' =
                  [(IF outcome = "ok"
                    THEN UpdateAvailabilityTx(avail, user, dto) ELSE avail)
                   EXCEPT !.response = OkResponse(200, "Availability updated successfully"),
                          !.committed = (outcome = "ok")]
             /\ UNCHANGED serverUp
    /\ UNCHANGED <<gen, now, meetings, integrations, req, provider, agg, tok>>

AvailNext ==
    \/ \E user \in Users : Register(user)
    \/ \E user \in Users, dto \in UpdateDtos : UpdateAvailability(user, dto)

(***************************************************************************)
(* ValidateGoogleToken called on its own (controller/utils.go 198-237).    *)
(***************************************************************************)
\* latest expiry date and clock reading of a call
MaxExpiry == 3

\* an access token; 0 is the empty string
AccessTokens == 0..2

RefreshTokens == {"", "rt"}

TokIdle ==
    [pc |-> "idle", accessToken |-> 0, refreshToken |-> "",
     expiryDateUnix |-> 0,
     result |-> [token |-> 0, err |-> FALSE, called |-> FALSE]]

\* utils.go 198-237: one call, with the answer the token endpoint gives if
\* it is asked
CallValidateGoogleToken ==
    /\ tok.pc = "call"
    /\ \E providerOk \in BOOLEAN :
          tok' = [tok EXCEPT
                     !.pc = "done",
                     !.result = ValidateGoogleToken(
                                    tok.accessToken, tok.refreshToken,
                                    tok.expiryDateUnix, now, providerOk)]
    /\ UNCHANGED <<gen, agg, avail, bookingVars>>

(***************************************************************************)
(* Specifications.                                                         *)
(***************************************************************************)
GenIdle ==
    [pc |-> "done", dayStartTimeStr |-> BadTimeStr,
     dayEndTimeStr |-> BadTimeStr, durationMinutes |-> 30,
     timeGapArg |-> 30, timeGapMinutes |-> 30, meetingsOnDate |-> {},
     now |-> 0,
     currentSlotStart |-> 0, dayEndBoundary |-> 0, slots |-> <<>>,
     err |-> FALSE]

Init ==
    gen = GenIdle /\ agg = AggIdle /\ avail = NoAvail /\ tok = TokIdle
    /\ BookingInit

Next ==
    \/ \E p \in Procs, ev \in EventIDs, iv \in Intervals :
          CreateBookingLoad(p, ev, iv)
    \/ \E p \in Procs : CreateGetCalendarClient(p)
    \/ \E p \in Procs : CreateCalendarInsert(p)
    \/ \E p \in Procs : CreateInsertMeeting(p)
    \/ \E p \in Procs, id \in 1..MaxMeetings :
          CancelMeetingLoad(p, id, "u1")
    \/ \E p \in Procs : CancelCalendarDelete(p)
    \/ \E p \in Procs : CancelUpdateStatus(p)
    \/ \E p \in Procs : Finish(p)
    \/ Tick

Spec == Init /\ [][Next]_vars

\* the slot generator applied to every input of GenInit
SlotsInit ==
    /\ GenInit
    /\ agg = AggIdle
    /\ tok = TokIdle
    /\ avail = NoAvail
    /\ serverUp = TRUE
    /\ now = 1
    /\ meetings = <<>>
    /\ integrations = {}
    /\ req = [p \in Procs |-> IdleReq]
    /\ provider = [nextId |-> 1]

SpecSlots == SlotsInit /\ [][GenNext]_vars

\* the generator is sequential code that keeps running until it returns
SpecSlotsFair == SlotsInit /\ [][GenNext]_vars /\ WF_vars(GenNext)

\* the stored rule of a weekday: open, switched off, or open with a start
\* time that does not parse
RuleOfKind(user, day, kind) ==
    DayRow(user, day,
           IF kind = "bad" THEN BadTimeStr ELSE TimeStr(9, 0),
           TimeStr(17, 0), kind # "off")

RuleKinds == {"open", "off", "bad", "none"}

\* a week of rules: a kind for every weekday, "none" for a day without row
WeekPatterns ==
    {[i \in 1..Len(AllDayOfWeek) |->
         IF i <= MaxVariedDays THEN v[i] ELSE "open"] :
        v \in [1..MaxVariedDays -> RuleKinds]}

RECURSIVE PatternRows(_, _, _)
PatternRows(w, user, i) ==
    IF i > Len(AllDayOfWeek) THEN <<>>
    ELSE (IF w[i] = "none" THEN <<>>
          ELSE <<RuleOfKind(user, AllDayOfWeek[i], w[i])>>)
         \o PatternRows(w, user, i + 1)

\* rows of table meetings the aggregator may find: of the owner u1 on the
\* date after today, Scheduled and Cancelled, of another owner, and of u1
\* today
MeetingPool ==
    <<[NoMeeting EXCEPT !.user_id = "u1", !.event_id = "e1",
          !.start_time = 1440 + 540, !.end_time = 1440 + 570,
          !.calendar_event_id = 1,
          !.calendar_app_type = AppGoogleMeetAndCalendar,
          !.status = Scheduled],
      [NoMeeting EXCEPT !.user_id = "u1", !.event_id = "e1",
          !.start_time = 1440 + 600, !.end_time = 1440 + 630,
          !.status = Cancelled],
      [NoMeeting EXCEPT !.user_id = "u2", !.event_id = "e3",
          !.start_time = 1440 + 570, !.end_time = 1440 + 600,
          !.status = Scheduled],
      [NoMeeting EXCEPT !.user_id = "u1", !.event_id = "e2",
          !.start_time = 570, !.end_time = 630, !.status = Scheduled]>>

\* the table that holds the rows of the pool with index in S, id = position
PoolTable(S) ==
    LET nth(i) == CHOOSE k \in S : Cardinality({j \in S : j < k}) = i - 1
    IN [i \in 1..Cardinality(S) |-> [MeetingPool[nth(i)] EXCEPT !.id = i]]

\* the aggregator on every week of rules, table of meetings and clock, and
\* for an owner who has no availability row
AggInit ==
    /\ gen = GenIdle
    /\ tok = TokIdle
    /\ agg = AggIdle
    /\ serverUp = TRUE
    /\ now \in {480, 570}
    /\ \E S \in SUBSET (1..Len(MeetingPool)) : meetings = PoolTable(S)
    /\ integrations = {}
    /\ req = [p \in Procs |-> IdleReq]
    /\ provider = [nextId |-> 1]
    /\ \/ \E w \in WeekPatterns :
             avail = [NoAvail EXCEPT
                         !.users = {"u1"},
                         !.availability = {[user_id |-> "u1", time_gap |-> 30]},
                         !.day_availability = PatternRows(w, "u1", 1)]
       \/ avail = [NoAvail EXCEPT !.users = {"u1"}]

SpecAggregator == AggInit /\ [][AggNext]_vars

\* registration and availability updates from the empty tables
AvailabilityInit ==
    /\ gen = GenIdle
    /\ tok = TokIdle
    /\ agg = AggIdle
    /\ avail = NoAvail
    /\ serverUp = TRUE
    /\ now = 1
    /\ meetings = <<>>
    /\ integrations = {}
    /\ req = [p \in Procs |-> IdleReq]
    /\ provider = [nextId |-> 1]

SpecAvailability == AvailabilityInit /\ [][AvailNext]_vars

\* cancel-meeting requests of every authenticated user on every table of
\* meetings drawn from the pool; in Spec the requests are the owner's
CancelInit ==
    /\ gen = GenIdle
    /\ tok = TokIdle
    /\ agg = AggIdle
    /\ avail = NoAvail
    /\ serverUp = TRUE
    /\ now = 1
    /\ \E S \in SUBSET (1..Len(MeetingPool)) : meetings = PoolTable(S)
    /\ integrations = {GoogleRow("rt", NullInt64), ZoomRow}
    /\ req = [p \in Procs |-> IdleReq]
    /\ provider = [nextId |-> 2]

CancelNext ==
    \/ \E p \in Procs, id \in 1..Len(MeetingPool), userID \in Users :
          CancelMeetingLoad(p, id, userID)
    \/ \E p \in Procs : CancelCalendarDelete(p)
    \/ \E p \in Procs : CancelUpdateStatus(p)
    \/ \E p \in Procs : Finish(p)

SpecCancel == CancelInit /\ [][CancelNext]_vars

\* ValidateGoogleToken on every access token, refresh token, expiry and clock
TokenInit ==
    /\ gen = GenIdle
    /\ agg = AggIdle
    /\ avail = NoAvail
    /\ tok \in [pc : {"call"}, accessToken : AccessTokens,
                refreshToken : RefreshTokens,
                expiryDateUnix : 0..MaxExpiry,
                result : {TokIdle.result}]
    /\ serverUp = TRUE
    /\ now \in 0..MaxExpiry
    /\ meetings = <<>>
    /\ integrations = {}
    /\ req = [p \in Procs |-> IdleReq]
    /\ provider = [nextId |-> 1]

SpecToken == TokenInit /\ [][CallValidateGoogleToken]_vars

(***************************************************************************)
(* Properties.                                                             *)
(***************************************************************************)
\* C1: no two Scheduled meetings of one owner have overlapping half-open
\* intervals, after any sequence or interleaving of create and cancel
C1_NoDoubleBooking ==
    \A i, j \in 1..Len(meetings) :
        /\ i # j
        /\ meetings[i].user_id = meetings[j].user_id
        /\ meetings[i].status = Scheduled
        /\ meetings[j].status = Scheduled
        => ~(/\ meetings[i].start_time < meetings[j].end_time
             /\ meetings[j].start_time < meetings[i].end_time)

\* the request ran its INSERT INTO meetings
AttemptedInsert(r) ==
    \/ r.createdMeeting # 0
    \/ r.response.message = "Failed to save meeting record"

\* C2: of two concurrent create-bookings for the same event, start and end,
\* exactly one ends with a Scheduled meeting and the other with a conflict:
\* never two Scheduled meetings, never an internal error
C2_OneWinnerOneConflict ==
    \A p, q \in Procs :
        /\ p # q
        /\ req[p].op = "create" /\ req[p].pc = "done"
        /\ req[q].op = "create" /\ req[q].pc = "done"
        /\ req[p].dto = req[q].dto
        /\ req[p].raced
        /\ AttemptedInsert(req[p]) /\ AttemptedInsert(req[q])
        => /\ (req[p].createdMeeting # 0) # (req[q].createdMeeting # 0)
           /\ req[p].response.code # InternalServerError
           /\ req[q].response.code # InternalServerError

\* C3: when the remote create fails (the provider answers with an error or
\* with an event that has no id) the booking ends there with an error and
\* has inserted no meeting row
C3_RemoteFailureAborts ==
    \A p \in Procs :
        req[p].remote \in {"failed", "noid"}
        => /\ req[p].pc = "done"
           /\ req[p].response.code = InternalServerError
           /\ req[p].createdMeeting = 0
           /\ ~AttemptedInsert(req[p])

C3_Witness ==
    \E p \in Procs :
        /\ req[p].remote = "noid"
        /\ req[p].pc = "done"
        /\ provider.nextId > 1

\* the opening instant of the window, from the stored start time
DayStart ==
    LET sp == ParseDBTime(gen.dayStartTimeStr) IN DateAt(sp.Hour, sp.Minute)

\* C4: every emitted slot [start, start + duration) lies inside the window
\* [open, close) and overlaps no booked interval
C4_SlotsInWindowAndFree ==
    gen.pc \in {"loop", "done"} /\ ~gen.err
    => \A k \in 1..Len(gen.slots) :
          LET start == SlotInstant(gen.slots[k])
              end == start + gen.durationMinutes
          IN /\ DayStart <= start
             /\ end <= gen.dayEndBoundary
             /\ IsSlotAvailable(start, end, gen.meetingsOnDate)

\* the starts the loop has visited and not cut off at the boundary
Candidates ==
    LET base == SlotStartBase(ParseDBTime(gen.dayStartTimeStr),
                              ParseDBTime(gen.dayEndTimeStr))
    IN {c \in base..(gen.currentSlotStart - 1) :
            /\ (c - base) % gen.timeGapMinutes = 0
            /\ c + gen.durationMinutes <= gen.dayEndBoundary}

\* C5: every emitted slot starts at or after now, and a candidate that
\* starts exactly at now, free of bookings, is emitted
C5_FutureSlotsInclusive ==
    gen.pc \in {"loop", "done"} /\ ~gen.err
    => /\ \A k \in 1..Len(gen.slots) : SlotInstant(gen.slots[k]) >= gen.now
       /\ \A c \in Candidates :
             /\ c = gen.now
             /\ IsSlotAvailable(c, c + gen.durationMinutes, gen.meetingsOnDate)
             => \E k \in 1..Len(gen.slots) : gen.slots[k] = FormatHM(c)

C5_Witness ==
    /\ gen.pc = "done" /\ ~gen.err
    /\ gen.now \in Candidates
    /\ \E k \in 1..Len(gen.slots) : SlotInstant(gen.slots[k]) = gen.now

\* C6: cancelling a meeting that is already Cancelled ends with the
\* "already cancelled" error and not with success, deletes nothing at the
\* provider and leaves the row as it was
C6_AlreadyCancelledRejected ==
    \A p \in Procs :
        req[p].op = "cancel" /\ req[p].meeting.status = Cancelled
        => /\ req[p].pc = "done"
           /\ req[p].response.code = BadRequest
           /\ req[p].response.message = "Meeting is already cancelled"
           /\ req[p].response.status # 200
           /\ req[p].remote = "none"
           /\ meetings[req[p].meetingID] = req[p].meeting

C6_Witness ==
    \E p \in Procs :
        /\ req[p].op = "cancel" /\ req[p].pc = "done"
        /\ req[p].meeting.status = Cancelled
        /\ HasRemoteEvent(req[p].meeting)

\* the ways the best-effort remote deletion fails
RemoteDeleteFailures == {"lookup_err", "no_cred", "client_err", "delete_err"}

\* C7: a failed remote deletion (credential lookup error, credential
\* absent, client or token refresh failure, provider delete error) never
\* ends the cancellation: the handler goes on to the status update, which
\* leaves the row Cancelled and answers success; the only error the request
\* can still end with is the failure of that update itself
C7_RemoteDeleteFailureSwallowed ==
    \A p \in Procs :
        req[p].remote \in RemoteDeleteFailures
        => /\ req[p].pc \in {"cm_update", "done"}
           /\ req[p].pc = "done" =>
                 \/ /\ req[p].response = OkResponse(200, "Meeting cancelled successfully")
                    /\ meetings[req[p].meetingID].status = Cancelled
                 \/ req[p].response.message = "Failed to update meeting status"

C7_Witness ==
    \E p \in Procs :
        /\ req[p].remote = "delete_err"
        /\ req[p].pc = "done"
        /\ req[p].response.status = 200
        /\ meetings[req[p].meetingID].status = Cancelled

\* C8: a meeting's status only moves from not existing to Scheduled to
\* Cancelled: a row is inserted as Scheduled, a Cancelled row stays
\* Cancelled, and no row disappears
C8_StatusMonotone ==
    [][/\ Len(meetings') >= Len(meetings)
       /\ \A i \in 1..Len(meetings) :
             /\ meetings'[i].status \in {Scheduled, Cancelled}
             /\ meetings[i].status = Cancelled
                => meetings'[i].status = Cancelled
       /\ \A i \in (Len(meetings) + 1)..Len(meetings') :
             meetings'[i].status = Scheduled]_vars

C8_Witness ==
    \E p, q \in Procs :
        /\ p # q
        /\ req[p].op = "cancel" /\ req[q].op = "cancel"
        /\ req[p].meetingID = req[q].meetingID
        /\ req[p].response.status = 200 /\ req[q].response.status = 200
        /\ meetings[req[p].meetingID].status = Cancelled

\* C9: for an event at the remote-calendar location the local insert is
\* attempted only after the remote create has succeeded with an event id
C9_RemoteCreateBeforeInsert ==
    /\ \A p \in Procs :
          /\ req[p].op = "create"
          /\ req[p].event.location_type = LocationGoogleMeetAndCalendar
          /\ req[p].pc = "cb_insert" \/ AttemptedInsert(req[p])
          => /\ req[p].remote = "created"
             /\ req[p].calendarEventID # 0
    /\ \A i \in 1..Len(meetings) :
          (\E e \in events :
              /\ e.id = meetings[i].event_id
              /\ e.location_type = LocationGoogleMeetAndCalendar)
          => meetings[i].calendar_event_id # 0

C9_Witness ==
    \E p \in Procs :
        /\ req[p].pc = "done"
        /\ req[p].createdMeeting # 0
        /\ req[p].event.location_type = LocationGoogleMeetAndCalendar
        /\ req[p].remote = "created"

\* C10: a request that refreshed the access token leaves the new token in
\* the owner's integration row when it ends, so that the next request finds
\* it there
C10_RefreshedTokenPersisted ==
    \A p \in Procs :
        /\ req[p].pc = "done"
        /\ req[p].response.code = ""
        /\ req[p].refreshed
        => \E i \in integrations :
              /\ i.user_id = req[p].integration.user_id
              /\ i.app_type = req[p].integration.app_type
              /\ i.access_token = req[p].validAccessToken

\* C11: a create-booking whose event owner has no connected credential for
\* the location's provider ends with the "integration not connected" error
\* as a client error (4xx), not a 500, after no remote call and no insert
C11_NotConnectedIsClientError ==
    \A p \in Procs :
        /\ req[p].op = "create" /\ req[p].pc = "done"
        /\ req[p].response.message =
              "Required integration not found or disconnected for the event owner."
        => /\ req[p].response.status \in 400..499
           /\ req[p].remote = "none"
           /\ req[p].refreshes = 0
           /\ ~AttemptedInsert(req[p])

\* C12: a create-booking that names no event, or a private one, ends with
\* "not found" (unless the event query itself fails) and has looked up no
\* credential, called no provider and inserted no meeting
C12_MissingOrPrivateEventNotFound ==
    \A p \in Procs :
        /\ req[p].op = "create"
        /\ ~\E e \in events : e.id = req[p].dto.EventID /\ ~e.is_private
        => /\ req[p].pc = "done"
           /\ \/ req[p].response =
                    ErrorResponse(ResourceNotFound, "Resource 'Public event' not found.")
              \/ req[p].response.message = "Failed to fetch event"
           /\ req[p].integration = NoIntegration
           /\ req[p].remote = "none"
           /\ req[p].refreshes = 0
           /\ ~AttemptedInsert(req[p])

C12_Witness ==
    \E p \in Procs :
        /\ req[p].op = "create" /\ req[p].pc = "done"
        /\ req[p].dto.EventID = "e3"
        /\ req[p].response.status = 404
        /\ Len(meetings) > 0

\* the stored day rows of the owner of the aggregator's event for a weekday
StoredRules(dayOfWeek) ==
    {r \in RuleRows(avail, agg.event) : r.day = dayOfWeek}

\* C13: in the weekly availability result, a weekday whose stored rule has
\* is_available = FALSE, or that has no stored rule, has an empty slot list
\* and isAvailable = FALSE, whatever meetings exist
C13_UnavailableDayHasNoSlots ==
    \A k \in 1..Len(agg.resultSlots) :
        LET entry == agg.resultSlots[k]
        IN (\A r \in StoredRules(entry.Day) : ~r.is_available)
               => entry.Slots = <<>> /\ ~entry.IsAvailable

\* the result was returned for a week in which the date after today has a
\* rule switched off, one weekday has no rule, and the owner has a Scheduled
\* meeting on the date after today
C13_Witness ==
    /\ agg.pc = "done" /\ agg.response.status = 200
    /\ agg.todayWeekDay = 0
    /\ \E r \in StoredRules("MONDAY") : ~r.is_available
    /\ \E d \in {"SUNDAY", "TUESDAY"} : StoredRules(d) = {}
    /\ \E m \in agg.meetingsInRange :
          m.status = Scheduled /\ m.start_time = 1440 + 540
    /\ agg.resultSlots[2].Slots = <<>> /\ ~agg.resultSlots[2].IsAvailable

\* the slots of a weekday when only the given meetings exclude
SlotsExcluding(dayOfWeek, excluding) ==
    LET targetDate == GetNextDateForDay(dayOfWeek, agg.todayWeekDay)
        rule == agg.dayRules[dayOfWeek]
    IN GenerateAvailableTimeSlots(
           rule.start_time, rule.end_time, agg.event.duration, agg.timeGap,
           MeetingsForThisDate(excluding, targetDate),
           now - Midnight(targetDate))

\* C14: the meetings that exclude slots from the weekly availability result
\* are exactly the owner's Scheduled meetings that intersect the 7-day
\* window: every available weekday lists the slots the generator gives when
\* only those meetings are booked, so a Cancelled meeting excludes no slot
C14_OnlyScheduledMeetingsExclude ==
    agg.pc = "done" =>
        \A k \in 1..Len(agg.resultSlots) :
            LET entry == agg.resultSlots[k]
                scheduled ==
                    {m \in MeetingsInRange(meetings, agg.event.user_id,
                                           now, DateRangeEnd(now)) :
                        m.status = Scheduled}
                expected == SlotsExcluding(entry.Day, scheduled)
            IN entry.IsAvailable /\ ~expected.err
                   => entry.Slots = expected.slots

\* C15: for a rule open 09:00 and closed 17:00, an event of 60 minutes, a
\* gap of 30, no meeting on the target date and the clock at 08:00 of the
\* target date, the generator returns exactly the 15 starts 09:00, 09:30,
\* ..., 16:00 in ascending order
C15_WorkdayScenario ==
    \A k \in 1..Len(agg.resultSlots) :
        LET entry == agg.resultSlots[k]
            targetDate == GetNextDateForDay(entry.Day, agg.todayWeekDay)
            rule == agg.dayRules[entry.Day]
        IN /\ entry.IsAvailable
           /\ rule.start_time = TimeStr(9, 0)
           /\ rule.end_time = TimeStr(17, 0)
           /\ agg.event.duration = 60
           /\ agg.timeGap = 30
           /\ MeetingsForThisDate(agg.meetingsInRange, targetDate) = {}
           /\ now - Midnight(targetDate) = 8 * 60
           => entry.Slots =
                  [j \in 1..15 |-> <<9 + (j - 1) \div 2, 30 * ((j - 1) % 2)>>]

\* the result was returned at 08:00 for the 60-minute event, and today's
\* weekday is open, has no meeting, and lists 15 slots from 09:00 to 16:00
C15_Witness ==
    /\ agg.pc = "done" /\ agg.response.status = 200
    /\ agg.event.duration = 60 /\ agg.timeGap = 30
    /\ now = 8 * 60
    /\ \E k \in 1..Len(agg.resultSlots) :
          LET entry == agg.resultSlots[k]
          IN /\ GetNextDateForDay(entry.Day, agg.todayWeekDay) = 0
             /\ entry.IsAvailable
             /\ MeetingsForThisDate(agg.meetingsInRange, 0) = {}
             /\ Len(entry.Slots) = 15
             /\ entry.Slots[1] = <<9, 0>> /\ entry.Slots[15] = <<16, 0>>

\* the minutes of the half-open interval [s, e)
Minutes(s, e) == s..(e - 1)

\* C16: the overlap test is half-open and symmetric: a visited slot [s, e)
\* that is not in the past is emitted exactly when it shares no minute with
\* any booked interval [bs, be), that is unless s < be and e > bs; a booked
\* interval that starts where the slot ends is no conflict, one that starts a
\* minute earlier is; and the test gives the same answer with the slot and
\* the booked interval swapped
C16_OverlapHalfOpenSymmetric ==
    gen.pc \in {"loop", "done"} /\ ~gen.err
    => \A c \in Candidates :
          LET e == c + gen.durationMinutes
              emitted == \E k \in 1..Len(gen.slots) : gen.slots[k] = FormatHM(c)
          IN /\ IsFutureSlot(c, gen.now)
                => (emitted <=>
                       \A m \in gen.meetingsOnDate :
                           Minutes(c, e) \cap Minutes(m.StartTime, m.EndTime) = {})
             /\ \A m \in gen.meetingsOnDate :
                   /\ IsSlotAvailable(c, e, {m})
                         <=> ~(c < m.EndTime /\ e > m.StartTime)
                   /\ IsSlotAvailable(c, e, {m})
                         <=> IsSlotAvailable(m.StartTime, m.EndTime, {Booked(c, e)})
                   /\ (c = 600 /\ e = 630 /\ m = Booked(630, 660)) => emitted
                   /\ (c = 600 /\ e = 630 /\ m = Booked(629, 645)) => ~emitted

\* the generator finished a day with the booked interval [10:30, 11:00):
\* the slot [10:00, 10:30) that ends where it starts was emitted, the slot
\* [10:30, 11:00) was visited and not emitted
C16_Witness ==
    /\ gen.pc = "done" /\ ~gen.err
    /\ gen.durationMinutes = 30
    /\ gen.meetingsOnDate = {Booked(630, 660)}
    /\ {600, 630} \subseteq Candidates
    /\ \E k \in 1..Len(gen.slots) : gen.slots[k] = FormatHM(600)
    /\ \A k \in 1..Len(gen.slots) : gen.slots[k] # FormatHM(630)

\* C17: ValidateGoogleToken called with an empty refresh token returns the
\* access token it was given, unchanged and without error, and does not call
\* the token endpoint, whether or not the expiry has passed
C17_NoRefreshTokenReturnsInput ==
    tok.pc = "done" /\ tok.refreshToken = ""
    => /\ tok.result.token = tok.accessToken
       /\ ~tok.result.err
       /\ ~tok.result.called

\* a call without refresh token whose access token had expired returned
C17_Witness ==
    /\ tok.pc = "done" /\ tok.refreshToken = ""
    /\ tok.accessToken # 0
    /\ Expired(tok.expiryDateUnix, now)
    /\ tok.result.token = tok.accessToken

\* C18: when the stored refresh token is rejected by the token endpoint,
\* ValidateGoogleToken returns no access token and an error; the
\* create-booking in which this happens ends with the "Failed to
\* validate/refresh Google token" failure, has called the token endpoint
\* once, has created no calendar event and has inserted no meeting
C18_RefreshRejectedAborts ==
    \A p \in Procs :
        /\ req[p].op = "create"
        /\ req[p].refreshRejected
        => /\ req[p].pc = "done"
           /\ req[p].response.message = "Failed to validate/refresh Google token"
           /\ req[p].response.status \notin 200..299
           /\ req[p].refreshes = 1
           /\ req[p].remote = "none"
           /\ ~AttemptedInsert(req[p])
           /\ ValidateGoogleToken(req[p].integration.access_token,
                                  req[p].integration.refresh_token,
                                  req[p].integration.expiry_date.Int64,
                                  now, FALSE)
                  = [token |-> 0, err |-> TRUE, called |-> TRUE]

\* a create-booking ended on a rejected refresh of a stored refresh token
C18_Witness ==
    \E p \in Procs :
        /\ req[p].op = "create" /\ req[p].pc = "done"
        /\ req[p].integration.refresh_token = "rt"
        /\ req[p].refreshRejected
        /\ req[p].refreshes = 1
        /\ req[p].response.message = "Failed to validate/refresh Google token"
        /\ provider.nextId = 1

\* the committed day rules of a user
RulesOf(user) ==
    {i \in 1..Len(avail.day_availability) :
        avail.day_availability[i].user_id = user}

\* C19: after any sequence of registration and update-availability
\* requests, every user with an availability row has exactly seven day
\* rules, one for every weekday
C19_OneRulePerWeekday ==
    \A a \in avail.availability :
        /\ Cardinality(RulesOf(a.user_id)) = Len(AllDayOfWeek)
        /\ \A d \in 1..Len(AllDayOfWeek) :
              Cardinality({i \in RulesOf(a.user_id) :
                  avail.day_availability[i].day = AllDayOfWeek[d]}) = 1

\* the weekdays whose stored rule is switched on and has a start or end time
\* that does not parse (utils.go 69-77)
FailingDays ==
    {d \in DOMAIN agg.dayRules :
        /\ agg.dayRules[d].is_available
        /\ \/ ParseDBTime(agg.dayRules[d].start_time).err
           \/ ParseDBTime(agg.dayRules[d].end_time).err}

\* C20: when slot generation fails for a weekday, the weekly availability
\* request that has read its tables still succeeds: it is not ended by an
\* error in the loop over the weekdays, and its result has an entry for each
\* of the seven weekdays from Sunday to Saturday, with no slots for the
\* failing day and the slots of the generator for every other available day
C20_FailingDayIsEmptyOthersComputed ==
    (agg.pc = "done" /\ agg.i > 0) =>
          /\ agg.response.status = 200
          /\ Len(agg.resultSlots) = Len(AllDayOfWeek)
          /\ LET failing == FailingDays
             IN \A k \in 1..Len(AllDayOfWeek) :
                   LET entry == agg.resultSlots[k]
                   IN /\ entry.Day = AllDayOfWeek[k]
                      /\ entry.Day \in failing => entry.Slots = <<>>
                      /\ (entry.IsAvailable /\ entry.Day \notin failing)
                            => entry.Slots =
                                   SlotsExcluding(entry.Day,
                                                  agg.meetingsInRange).slots

\* the result was returned for a week with a day whose start time does not
\* parse and an open day that lists slots
C20_Witness ==
    /\ agg.pc = "done" /\ agg.response.status = 200
    /\ FailingDays # {}
    /\ \E k \in 1..Len(agg.resultSlots) :
          /\ agg.resultSlots[k].Day \in FailingDays
          /\ agg.resultSlots[k].Slots = <<>>
    /\ \E k \in 1..Len(agg.resultSlots) : agg.resultSlots[k].Slots # <<>>

\* what the availability query answers for an event id that names no public
\* event (part_000 261-266 with an empty result)
NoSuchEventResponse ==
    ErrorResponse(BadRequest, "Event found but no availability for user")

\* what the availability query answers when its first query fails
\* (part_000 257)
QueryFailureResponse ==
    ErrorResponse(InternalServerError, "Failed to fetch event and availabilty")

\* C21: for a public event whose owner has no availability configured, the
\* availability query reports an outcome of its own: not a successful result,
\* not the answer for an event id that does not exist, and not the answer of
\* a failed query
C21_NoAvailabilityDistinct ==
    /\ agg.pc = "done"
    /\ ~agg.queryFailed
    /\ PublicEventQuery(agg.eventID) # {}
    /\ \A e \in PublicEventQuery(agg.eventID) :
          \A a \in avail.availability : a.user_id # e.user_id
    => /\ agg.response.status # 200
       /\ agg.response # NoSuchEventResponse
       /\ agg.response # QueryFailureResponse

\* C22: token refresh is not coordinated across requests: a create-booking
\* that is about to build its calendar client, while a concurrent request has
\* already refreshed the same credential, still holds the expired credential
\* it read and calls the token endpoint itself with the same refresh token
C22_RefreshNotCoordinated ==
    \A p \in Procs, q \in Procs :
        /\ p # q
        /\ req[p].op = "create" /\ req[p].pc = "cb_client"
        /\ req[q].refreshed
        /\ req[q].integration = req[p].integration
        => GetCalendarClient(req[p].integration, now, TRUE, FALSE).called

\* two concurrent create-bookings read the same stored credential and each
\* called the token endpoint with its refresh token
C22_Witness ==
    /\ req[1].op = "create" /\ req[2].op = "create"
    /\ req[1].integration = req[2].integration
    /\ req[1].integration.refresh_token = "rt"
    /\ req[1].integration \in integrations
    /\ req[1].refreshes >= 1 /\ req[2].refreshes >= 1
    /\ req[1].refreshed /\ req[2].refreshed

\* C23: of two cancel-meeting requests for the same Scheduled meeting, at
\* most one reports "Meeting cancelled successfully"
C23_AtMostOneCancelSucceeds ==
    \A p \in Procs, q \in Procs :
        /\ p # q
        /\ req[p].op = "cancel" /\ req[q].op = "cancel"
        /\ req[p].meetingID = req[q].meetingID
        /\ req[p].meeting.status = Scheduled /\ req[q].meeting.status = Scheduled
        => ~(/\ req[p].response.message = "Meeting cancelled successfully"
             /\ req[q].response.message = "Meeting cancelled successfully")

\* the loop runs with a positive gap, and the emitted starts are strictly
\* ascending, each the first candidate plus a whole multiple of the gap
GapPositiveSlotsAscending ==
    gen.pc \in {"loop", "done"} /\ ~gen.err
    => LET base == SlotStartBase(ParseDBTime(gen.dayStartTimeStr),
                                 ParseDBTime(gen.dayEndTimeStr))
       IN /\ gen.timeGapMinutes > 0
          /\ gen.timeGapArg <= 0 => gen.timeGapMinutes = DefaultTimeGap
          /\ \A k \in 1..Len(gen.slots) :
                /\ SlotInstant(gen.slots[k]) >= base
                /\ (SlotInstant(gen.slots[k]) - base) % gen.timeGapMinutes = 0
                /\ k > 1 => SlotInstant(gen.slots[k - 1])
                               < SlotInstant(gen.slots[k])

\* C24: the slot generator terminates for every input: a gap <= 0 is
\* replaced by 30 before the loop, the emitted starts are strictly ascending
\* and each is the first candidate plus a whole multiple of the gap
C24_GeneratorTerminates ==
    /\ <>(gen.pc = "done")
    /\ []GapPositiveSlotsAscending

\* the generator returned several slots for a call whose gap was not positive
C24_Witness ==
    /\ gen.pc = "done" /\ ~gen.err
    /\ gen.timeGapArg <= 0
    /\ Len(gen.slots) >= 2

\* C25: a create-booking calls the provider's token endpoint at most once:
\* the access token ValidateGoogleToken obtained is the one createEvent is
\* sent with, and the HTTP client does not refresh a second time
C25_AtMostOneRefresh ==
    \A p \in Procs : req[p].op = "create" => req[p].refreshes <= 1

\* a request has ended in an error that was reported through WriteError
ErrorReported == \E p \in Procs : req[p].pc = "done" /\ req[p].response.code # ""

C27_SuccessOnlyAfterCommit ==
    avail.response.status \in {200, 201} => avail.committed

\* C28: a meeting is cancelled only by a cancel-meeting request that is
\* authenticated as the user who owns the meeting's event: a request of
\* another user is not answered with success and leaves the meeting Scheduled
C28_OnlyOwnerCancels ==
    \A p \in Procs :
        /\ req[p].op = "cancel" /\ req[p].pc = "done"
        /\ req[p].response.status = 200
        => req[p].userID = EventUserID(req[p].meeting)

\* the request works with a connected Google credential that has no refresh
\* token
NoRefreshTokenCredential(r) ==
    /\ r.integration.app_type = AppGoogleMeetAndCalendar
    /\ r.integration.refresh_token = ""

\* C29: with a Google credential that has no refresh token, GetCalendarClient
\* fails before ValidateGoogleToken runs: no token is obtained or refreshed,
\* no calendar call is made, a create-booking ends with the error "Google
\* integration missing refresh token for offline access." and stores no
\* meeting, and a cancel-meeting skips the remote deletion
C29_NoRefreshTokenNeverReachesProvider ==
    \A p \in Procs :
        NoRefreshTokenCredential(req[p]) =>
            /\ req[p].refreshes = 0
            /\ req[p].validAccessToken = 0
            /\ req[p].remote \in {"none", "client_err"}
            /\ req[p].op = "create" =>
                  /\ req[p].pc \in {"cb_client", "done"}
                  /\ req[p].createdMeeting = 0
                  /\ req[p].pc = "done" =>
                        req[p].response.message =
                            "Google integration missing refresh token for offline access."
            /\ req[p].op = "cancel" =>
                  req[p].pc \in {"cm_client", "cm_update", "done"}

C29_Witness ==
    \E p \in Procs :
        /\ NoRefreshTokenCredential(req[p])
        /\ req[p].op = "create" /\ req[p].pc = "done"
        /\ req[p].response.message =
              "Google integration missing refresh token for offline access."
        /\ req[p].createdMeeting = 0
        /\ \E q \in Procs :
              /\ NoRefreshTokenCredential(req[q])
              /\ req[q].op = "cancel" /\ req[q].remote = "client_err"

\* the length in minutes of a stored meeting; an instant of the booking
\* handlers' clock is a half hour
MeetingMinutes(m) == (m.end_time - m.start_time) * 30

\* the row of table events a meeting belongs to
EventOfMeeting(m) == CHOOSE e \in events : e.id = m.event_id

\* C30: every meeting create-booking stores as Scheduled is a slot the
\* availability listing could have offered at booking time: its length is
\* the duration of its event and its start is not in the past
C30_StoredMeetingIsOfferedSlot ==
    [][Len(meetings') > Len(meetings) =>
          LET m == meetings'[Len(meetings')]
          IN m.status = Scheduled =>
                /\ MeetingMinutes(m) = EventOfMeeting(m).duration
                /\ m.start_time >= now]_vars

====
